---- MODULE Spec2Model ----
(***************************************************************************)
(* Model of the signerflow-crl ingestion pipeline and of the cache-aside   *)
(* revocation-status query path.                                           *)
(*                                                                         *)
(*   services/crl_service.go  ProcessAllCRLs, ProcessSingleCRL,            *)
(*                            CheckCertificateStatus                       *)
(*   cache/redis.go           lease and certificate keys of the cache      *)
(*   database (part_001)      BatchInsertRevokedCertificates,              *)
(*                            InsertCRLInfo, GetCertificateStatus          *)
(*   models (part_002)        CertificateStatus, RevocationReasons         *)
(*                                                                         *)
(* Every step of the model is one access to shared state (one Redis        *)
(* command, one SQL statement or transaction, one channel or WaitGroup     *)
(* operation) together with the local computation that follows it.         *)
(***************************************************************************)
EXTENDS Integers, Sequences, FiniteSets, TLC

(***************************************************************************)
(* Bounds of the model                                                     *)
(***************************************************************************)
\* number of CheckCertificateStatus calls the client makes, one after another
MaxQueries == 2
\* number of sources of the registry used to saturate the counting gate
\* beyond its capacity (GateSources - semaphoreCap workers have to wait)
GateSources == 6
\* records per batch; stands for batchSize := 500 of ProcessSingleCRL,
\* scaled down so that a three-entry list spans two batches
batchSize == 2
\* readings of the wall clock beyond the first
MaxClock == 2
\* entries of the list of the source "bulk": two full batches and a short one
BulkEntries == 5
\* sources of the registry of each of two overlapping invocations: together
\* more than the counting gate of one invocation admits
OverlapSources == 3

(***************************************************************************)
(* Program constants                                                       *)
(***************************************************************************)
\* semaphore := make(chan struct{}, 5)
semaphoreCap == 5
\* http.StatusAccepted
StatusAccepted == 202
\* TTLs in seconds
LeaseTTL == 1800
ReleaseTTL == 1
IngestTTL == 86400
RevokedTTL == 604800
NotRevokedTTL == 86400

(***************************************************************************)
(* models: the reason table and the status projection                      *)
(***************************************************************************)
RevocationReasons ==
    [c \in {0, 1, 2, 3, 4, 5, 6, 8, 9, 10} |->
        CASE c = 0 -> "No especificado"
          [] c = 1 -> "Compromiso de clave"
          [] c = 2 -> "Compromiso de CA"
          [] c = 3 -> "Cambio de afiliacion"
          [] c = 4 -> "Reemplazado"
          [] c = 5 -> "Cese de operaciones"
          [] c = 6 -> "Retencion de certificado"
          [] c = 8 -> "Eliminado de CRL"
          [] c = 9 -> "Privilegio retirado"
          [] OTHER -> "Compromiso de AA"]

\* Go map lookup: the zero value "" for a key that is not in the map
ReasonLookup(code) ==
    IF code \in DOMAIN RevocationReasons THEN RevocationReasons[code] ELSE ""

\* A *T field is <<>> when nil and <<v>> when it points to v.
CertificateStatus(serial, revoked, date, reason, ca) ==
    [serial |-> serial, is_revoked |-> revoked, revocation_date |-> date,
     reason |-> reason, certificate_authority |-> ca]

(***************************************************************************)
(* encoding/json of a CertificateStatus: a JSON object is a function from  *)
(* the member names that are present; omitempty drops a nil pointer and    *)
(* keeps a pointer to the empty string.                                    *)
(***************************************************************************)
EmptyObject == [k \in {} |-> k]

\* variant: omitempty on plain string fields, which drops the empty string
OmitEmptyValue(name, ptr) ==
    IF ptr = <<>> \/ (name # "revocation_date" /\ ptr[1] = "")
    THEN EmptyObject ELSE (name :> ptr[1])

OmitEmpty(name, ptr) == IF ptr = <<>> THEN EmptyObject ELSE (name :> ptr[1])

Marshal(st) ==
    ("serial" :> st.serial) @@ ("is_revoked" :> st.is_revoked)
      @@ OmitEmpty("revocation_date", st.revocation_date)
      @@ OmitEmpty("reason", st.reason)
      @@ OmitEmpty("certificate_authority", st.certificate_authority)

Member(obj, name) == IF name \in DOMAIN obj THEN <<obj[name]>> ELSE <<>>

Unmarshal(obj) ==
    CertificateStatus(obj["serial"], obj["is_revoked"],
                      Member(obj, "revocation_date"), Member(obj, "reason"),
                      Member(obj, "certificate_authority"))

(***************************************************************************)
(* The sources and what they serve.  Ext.Value of a reasonCode extension   *)
(* is the DER encoding of the ENUMERATED: tag, length, value.              *)
(***************************************************************************)
ReasonOID == "2.5.29.21"
OtherOID == "2.5.29.24"

\* tag 10 (ENUMERATED), length 1, the code
DerEnumerated(code) == <<10, 1, code>>

ReasonExt(code) == [Id |-> ReasonOID, Value |-> DerEnumerated(code)]

URLs == {"dead", "u1", "u2", "bulk"}

\* what a source serves when the download succeeds and the bytes are a CRL
CRLFile(u) ==
    CASE u = "u1" ->
           [Issuer |-> [CommonName |-> "CA1", Organization |-> <<"Org1">>,
                        OrganizationalUnit |-> <<>>],
            NextUpdate |-> 100,
            RevokedCertificates |->
              << [SerialNumber |-> 1, RevocationTime |-> 10,
                  Extensions |-> <<ReasonExt(1)>>],
                 [SerialNumber |-> 2, RevocationTime |-> 11,
                  Extensions |-> <<>>],
                 [SerialNumber |-> 3, RevocationTime |-> 12,
                  Extensions |-> <<[Id |-> OtherOID, Value |-> <<4>>],
                                   [Id |-> ReasonOID, Value |-> <<>>]>>] >>]
      [] u = "u2" ->
           [Issuer |-> [CommonName |-> "", Organization |-> <<"Org2">>,
                        OrganizationalUnit |-> <<"Unit2">>],
            NextUpdate |-> 200,
            RevokedCertificates |->
              << [SerialNumber |-> 1, RevocationTime |-> 20,
                  Extensions |-> <<>>] >>]
      [] u = "bulk" ->
           [Issuer |-> [CommonName |-> "CA3", Organization |-> <<>>,
                        OrganizationalUnit |-> <<>>],
            NextUpdate |-> 400,
            RevokedCertificates |->
              [i \in 1..BulkEntries |->
                 [SerialNumber |-> 10 + i, RevocationTime |-> 30,
                  Extensions |-> <<>>]]]
      [] OTHER ->
           [Issuer |-> [CommonName |-> "", Organization |-> <<>>,
                        OrganizationalUnit |-> <<>>],
            NextUpdate |-> 300,
            RevokedCertificates |-> <<>>]

\* the outcomes of downloadCRL followed by x509.ParseCRL: a list, a failed
\* request, or bytes that are not a list; the host of "dead" is unreachable
DownloadOutcomes(u) ==
    IF u = "dead" THEN {"download"} ELSE {"ok", "download", "parse"}

\* serials a client may ask for: one that both sources list, one that one
\* source lists, one that none lists
QuerySerials == {"1", "3", "9"}

\* texts a client may pass for a serial number, with the number they denote:
\* decimal, decimal with a leading zero, hexadecimal with a prefix in either
\* case, bare hexadecimal digits in either case
SerialForms ==
    {[text |-> "3", value |-> 3], [text |-> "03", value |-> 3],
     [text |-> "0x3", value |-> 3], [text |-> "0X3", value |-> 3],
     [text |-> "b", value |-> 11], [text |-> "B", value |-> 11]}

(***************************************************************************)
(* ProcessSingleCRL: local computation                                     *)
(***************************************************************************)
extractIssuerName(issuer) ==
    IF issuer.CommonName # "" THEN issuer.CommonName
    ELSE IF Len(issuer.Organization) > 0 THEN issuer.Organization[1]
    ELSE IF Len(issuer.OrganizationalUnit) > 0 THEN issuer.OrganizationalUnit[1]
    ELSE "<rdn>"

formatSerial(n) == ToString(n)

normalizeSerial(serial) == serial

\* the loop over revokedCert.Extensions: reason := int(ext.Value[0]) of the
\* last reasonCode extension that has a non-empty value, 0 without one
RECURSIVE ExtractReason(_, _)
ExtractReason(exts, reason) ==
    IF exts = <<>> THEN reason
    ELSE LET ext == Head(exts)
         IN  ExtractReason(Tail(exts),
                 IF ext.Id = ReasonOID /\ Len(ext.Value) > 0
                 THEN ext.Value[1] ELSE reason)

\* reasonText stays "": the assignment in the loop is to a variable that
\* shadows it (reasonText, exists := ...; reasonText = reasonText)
ExtractReasonText(exts) == ""

RevokedCertificate(entry, issuerNameStr) ==
    [Serial |-> formatSerial(entry.SerialNumber),
     RevocationDate |-> entry.RevocationTime,
     Reason |-> ExtractReason(entry.Extensions, 0),
     ReasonText |-> ExtractReasonText(entry.Extensions),
     CertificateAuthority |-> issuerNameStr]

\* all records of a list, in list order
Certificates(crl) ==
    [i \in 1..Len(crl.RevokedCertificates) |->
        RevokedCertificate(crl.RevokedCertificates[i],
                           extractIssuerName(crl.Issuer))]

Min(a, b) == IF a < b THEN a ELSE b

\* variant: the slice is not emptied after a flush
BatchAfterNoReset(certs, done) == SubSeq(certs, 1, Min(done + batchSize, Len(certs)))

\* the slice `certificates` that is flushed after `done` records were flushed
BatchAfter(certs, done) == SubSeq(certs, done + 1, Min(done + batchSize, Len(certs)))

\* the status ProcessSingleCRL puts into the cache for a record
IngestStatus(cert) ==
    CertificateStatus(cert.Serial, TRUE, <<cert.RevocationDate>>,
                      <<cert.ReasonText>>, <<cert.CertificateAuthority>>)

(***************************************************************************)
(* State                                                                   *)
(***************************************************************************)
Runs == {"scheduled", "manual"}
Slots == 1..GateSources
Workers == Runs \X Slots

ListedSerials ==
    UNION {{formatSerial(CRLFile(u).RevokedCertificates[i].SerialNumber) :
              i \in 1..Len(CRLFile(u).RevokedCertificates)} : u \in URLs}

Serials == ListedSerials \cup QuerySerials \cup {f.text : f \in SerialForms}

VARIABLES
    registry,   \* per invocation, the list LoadCRLURLs decodes from its file
    hasRedis,   \* s.redis != nil
    redisUp,    \* FALSE while every command to the cache returns an error
    lease,      \* keys crl_processing:<url>: <<>> or <<[value, ttl]>>
    certCache,  \* keys cert:<serial>: <<>> or <<[value, ttl]>>
    stats,      \* keys stats:cache_hits, stats:cache_misses, stats:crls_processed
    db,         \* table revoked_certificates: serial -> <<>> or <<row>>
    crlInfo,    \* table crl_info: url -> <<>> or <<row>>
    run,        \* per invocation of ProcessAllCRLs: pc, WaitGroup, semaphore
    workers,    \* per goroutine of ProcessAllCRLs: position and locals
    query,      \* per call of CheckCertificateStatus: position and locals
    ingested,   \* history: serials of the lists parsed so far
    crashed,    \* history: the process was killed and restarted, and the
                \* sources whose lease was held at that moment
    now,        \* what time.Now() returns
    refresh     \* the request POST /admin/refresh: position and response

vars == <<registry, hasRedis, redisUp, lease, certCache, stats, db, crlInfo,
          run, workers, query, ingested, crashed, now, refresh>>

NoWorker ==
    [pc |-> "absent", url |-> "", err |-> "nil", flushed |-> 0, cidx |-> 0,
     processed |-> 0, stamp |-> 0,
     \* history of the call
     calls |-> 0, skipped |-> FALSE, acquired |-> FALSE, released |-> FALSE,
     downloaded |-> FALSE, described |-> FALSE, batches |-> <<>>,
     committed |-> {}, failed |-> {}, cached |-> {}]

NoRun == [pc |-> "idle", result |-> "none", wg |-> 0, sem |-> 0]

NoQuery ==
    [pc |-> "idle", serial |-> "", status |-> <<>>, err |-> FALSE,
     \* history: calls made, and of the current call the text the caller
     \* passed, whether the cache answered, whether the store read failed,
     \* whether the serial had a row when the call started
     calls |-> 0, input |-> "", hit |-> FALSE, dbErr |-> FALSE,
     persisted |-> FALSE,
     \* whether the cache read failed, which counter the call incremented,
     \* whether it read the store
     cacheErr |-> FALSE, counted |-> "none", read |-> FALSE,
     \* the status of the previous call when that call was for the same
     \* serial and wrote back the status it got from the store
     prev |-> <<>>]

NoRefresh == [pc |-> "idle", response |-> <<>>]

InitWith(regs, redisChoices, up) ==
    /\ registry \in regs
    /\ hasRedis \in redisChoices
    /\ redisUp = up
    /\ lease = [u \in URLs |-> <<>>]
    /\ certCache = [s \in Serials |-> <<>>]
    /\ stats = [hits |-> 0, misses |-> 0, crls_processed |-> 0]
    /\ db = [s \in Serials |-> <<>>]
    /\ crlInfo = [u \in URLs |-> <<>>]
    /\ run = [r \in Runs |-> NoRun]
    /\ workers = [w \in Workers |-> NoWorker]
    /\ query = NoQuery
    /\ ingested = {}
    /\ crashed = [happened |-> FALSE, stale |-> {}]
    /\ now = 0
    /\ refresh = NoRefresh

(***************************************************************************)
(* The cache (Redis)                                                       *)
(***************************************************************************)
\* SET key value EX ttl
RedisSet(store, key, value, ttl) ==
    [store EXCEPT ![key] = <<[value |-> value, ttl |-> ttl]>>]

\* variant: the marker is written without an expiry
SetCRLProcessingNoExpiry(url, processing) ==
    IF processing THEN RedisSet(lease, url, "true", 0)
    ELSE RedisSet(lease, url, "false", ReleaseTTL)

\* SetCRLProcessing(url, processing) when the command succeeds
SetCRLProcessing(url, processing) ==
    IF processing THEN RedisSet(lease, url, "true", LeaseTTL)
    ELSE RedisSet(lease, url, "false", ReleaseTTL)

\* IsCRLProcessing(url) when the command succeeds: redis.Nil is false
IsCRLProcessing(store, url) ==
    IF store[url] = <<>> THEN FALSE ELSE store[url][1].value = "true"

\* SetCertificateStatus(serial, status, ttl) when the command succeeds
SetCertificateStatus(serial, status, ttl) ==
    RedisSet(certCache, serial, Marshal(status), ttl)

\* GetCertificateStatus(serial) of the cache when the command succeeds:
\* <<>> for redis.Nil
CacheGetCertificateStatus(serial) ==
    IF certCache[serial] = <<>> THEN <<>>
    ELSE <<Unmarshal(certCache[serial][1].value)>>

\* IncrementStats(key) when the command succeeds
IncrementStats(key) == [stats EXCEPT ![key] = @ + 1]

(***************************************************************************)
(* The store (PostgreSQL)                                                  *)
(***************************************************************************)
\* variant: a plain INSERT into a table without the UNIQUE constraint
UpsertCertAppends(table, cert, stamp) ==
    [table EXCEPT ![cert.Serial] =
        Append(@, [revocation_date |-> cert.RevocationDate,
                   reason |-> cert.Reason, reason_text |-> cert.ReasonText,
                   certificate_authority |-> cert.CertificateAuthority,
                   updated_at |-> stamp])]

\* variant: the revocation date column is filled with the time of the write
UpsertCertStampsDate(table, cert, stamp) ==
    [table EXCEPT ![cert.Serial] =
        <<[revocation_date |-> stamp, reason |-> cert.Reason,
           reason_text |-> cert.ReasonText,
           certificate_authority |-> cert.CertificateAuthority,
           updated_at |-> stamp]>>]

\* INSERT ... ON CONFLICT (serial) DO UPDATE SET every column; stamp is the
\* `now` of the transaction
UpsertCert(table, cert, stamp) ==
    [table EXCEPT ![cert.Serial] =
        <<[revocation_date |-> cert.RevocationDate, reason |-> cert.Reason,
           reason_text |-> cert.ReasonText,
           certificate_authority |-> cert.CertificateAuthority,
           updated_at |-> stamp]>>]

RECURSIVE UpsertAll(_, _, _)
UpsertAll(table, certs, stamp) ==
    IF certs = <<>> THEN table
    ELSE UpsertAll(UpsertCert(table, Head(certs), stamp), Tail(certs), stamp)

\* where a transaction over certs may fail: nowhere (0), at the Exec of row k
\* (Begin and Prepare failing are a failure before row 1), or at Commit
\* (Len(certs) + 1)
FailPoints(certs) == 0..(Len(certs) + 1)

\* variant: the statement runs outside the transaction, so every Exec is
\* committed on its own
BatchInsertNoTransaction(table, certs, stamp, failAt) ==
    IF Len(certs) = 0 THEN table
    ELSE IF failAt = 0 THEN UpsertAll(table, certs, stamp)
    ELSE UpsertAll(table, SubSeq(certs, 1, Min(failAt - 1, Len(certs))), stamp)

\* BatchInsertRevokedCertificates: one transaction.  The rows before the
\* failing Exec are written inside it; the deferred tx.Rollback() discards
\* them, tx.Commit() makes all rows visible
BatchInsertRevokedCertificates(table, certs, stamp, failAt) ==
    IF Len(certs) = 0 THEN table
    ELSE LET written == IF failAt = 0 THEN certs
                        ELSE SubSeq(certs, 1, Min(failAt - 1, Len(certs)))
             inTx == UpsertAll(table, written, stamp)
         IN  IF failAt = 0 THEN inTx ELSE table

\* variant: sql.ErrNoRows is not told apart and the zero row is projected
GetCertificateStatusNoRowsIgnored(table, serial) ==
    IF table[serial] = <<>>
    THEN CertificateStatus(serial, TRUE, <<0>>, <<ReasonLookup(0)>>, <<"">>)
    ELSE LET cert == table[serial][1]
             reasonText == IF cert.reason_text # "" THEN cert.reason_text
                           ELSE ReasonLookup(cert.reason)
         IN  CertificateStatus(serial, TRUE, <<cert.revocation_date>>,
                               <<reasonText>>, <<cert.certificate_authority>>)

\* GetCertificateStatus of the store when the query succeeds
GetCertificateStatus(table, serial) ==
    IF table[serial] = <<>>
    THEN CertificateStatus(serial, FALSE, <<>>, <<>>, <<>>)
    ELSE LET cert == table[serial][1]
             reasonText == IF cert.reason_text # "" THEN cert.reason_text
                           ELSE ReasonLookup(cert.reason)
         IN  CertificateStatus(serial, TRUE, <<cert.revocation_date>>,
                               <<reasonText>>, <<cert.certificate_authority>>)

\* InsertCRLInfo when the statement succeeds
InsertCRLInfo(table, url, crl) ==
    [table EXCEPT ![url] =
        <<[issuer |-> extractIssuerName(crl.Issuer),
           next_update |-> crl.NextUpdate,
           cert_count |-> Len(crl.RevokedCertificates)]>>]

(***************************************************************************)
(* ProcessAllCRLs                                                          *)
(***************************************************************************)
RunOf(w) == w[1]

WorkersOf(r) == {w \in Workers : RunOf(w) = r /\ workers[w].pc # "absent"}

\* where ProcessSingleCRL goes when its body ends: the deferred release is
\* registered only when s.redis != nil
AfterBody == IF hasRedis THEN "defer" ELSE "ret"

\* variant: a worker's error becomes the error of the invocation
ProcessAllCRLsResultFirstError(errs) ==
    IF errs \subseteq {"nil"} THEN "nil" ELSE "error"

\* what ProcessAllCRLs returns after wg.Wait(): the workers' errors are logged
ProcessAllCRLsResult(errs) == "nil"

\* LoadCRLURLs, then one goroutine per listed URL (wg.Add(1) each).  A file
\* that cannot be opened or decoded ends the invocation with an error.
RunStart(r) ==
    /\ run[r].pc = "idle"
    /\ \E loaded \in BOOLEAN :
         IF loaded
         THEN /\ run' = [run EXCEPT ![r] = [pc |-> "running", result |-> "none",
                                            wg |-> Len(registry[r]), sem |-> 0]]
              /\ workers' = [w \in Workers |->
                               IF RunOf(w) = r /\ w[2] <= Len(registry[r])
                               THEN [NoWorker EXCEPT !.pc = "spawned",
                                                     !.url = registry[r][w[2]]]
                               ELSE workers[w]]
         ELSE /\ run' = [run EXCEPT ![r].pc = "returned", ![r].result = "error"]
              /\ UNCHANGED workers
    /\ UNCHANGED <<registry, hasRedis, redisUp, lease, certCache, stats, db,
                   crlInfo, query, ingested, crashed, now, refresh>>

\* variant: the goroutine does not wait for a token
SemAcquireUngated(w) ==
    /\ workers[w].pc = "spawned"
    /\ run' = [run EXCEPT ![RunOf(w)].sem = @ + 1]
    /\ workers' = [workers EXCEPT ![w].pc = "entry", ![w].calls = @ + 1]
    /\ UNCHANGED <<registry, hasRedis, redisUp, lease, certCache, stats, db,
                   crlInfo, query, ingested, crashed, now, refresh>>

\* semaphore <- struct{}{}: blocks while the channel holds semaphoreCap tokens
SemAcquire(w) ==
    /\ workers[w].pc = "spawned"
    /\ run[RunOf(w)].sem < semaphoreCap
    /\ run' = [run EXCEPT ![RunOf(w)].sem = @ + 1]
    /\ workers' = [workers EXCEPT ![w].pc = "entry", ![w].calls = @ + 1]
    /\ UNCHANGED <<registry, hasRedis, redisUp, lease, certCache, stats, db,
                   crlInfo, query, ingested, crashed, now, refresh>>

\* variant: the token is given back at the end of the goroutine's body, which
\* a call that returned an error does not reach
WorkerReturnKeepsTokenOnError(w) ==
    /\ workers[w].pc = "ret"
    /\ run' = [run EXCEPT
                 ![RunOf(w)].sem = IF workers[w].err = "nil" THEN @ - 1 ELSE @,
                 ![RunOf(w)].wg = @ - 1]
    /\ workers' = [workers EXCEPT ![w].pc = "done"]
    /\ UNCHANGED <<registry, hasRedis, redisUp, lease, certCache, stats, db,
                   crlInfo, query, ingested, crashed, now, refresh>>

\* the worker's ProcessSingleCRL returned: the error is logged, then the
\* deferred <-semaphore and wg.Done() run
WorkerReturn(w) ==
    /\ workers[w].pc = "ret"
    /\ run' = [run EXCEPT ![RunOf(w)].sem = @ - 1, ![RunOf(w)].wg = @ - 1]
    /\ workers' = [workers EXCEPT ![w].pc = "done"]
    /\ UNCHANGED <<registry, hasRedis, redisUp, lease, certCache, stats, db,
                   crlInfo, query, ingested, crashed, now, refresh>>

\* variant: the invocation does not wait for its goroutines
RunReturnNoWait(r) ==
    /\ run[r].pc = "running"
    /\ stats' = IF hasRedis /\ redisUp THEN IncrementStats("crls_processed")
                ELSE stats
    /\ run' = [run EXCEPT ![r].pc = "returned",
                          ![r].result = ProcessAllCRLsResult(
                              {workers[w].err : w \in WorkersOf(r)})]
    /\ UNCHANGED <<registry, hasRedis, redisUp, lease, certCache, db, crlInfo,
                   workers, query, ingested, crashed, now, refresh>>

\* wg.Wait() returns, stats:crls_processed is incremented, return nil
RunReturn(r) ==
    /\ run[r].pc = "running"
    /\ run[r].wg = 0
    /\ stats' = IF hasRedis /\ redisUp THEN IncrementStats("crls_processed")
                ELSE stats
    /\ run' = [run EXCEPT ![r].pc = "returned",
                          ![r].result = ProcessAllCRLsResult(
                              {workers[w].err : w \in WorkersOf(r)})]
    /\ UNCHANGED <<registry, hasRedis, redisUp, lease, certCache, db, crlInfo,
                   workers, query, ingested, crashed, now, refresh>>

(***************************************************************************)
(* ProcessSingleCRL                                                        *)
(***************************************************************************)
CertsOf(w) == Certificates(CRLFile(workers[w].url))

BatchOf(w) == BatchAfter(CertsOf(w), workers[w].flushed)

\* variant: the release is deferred before the lease is checked, so the
\* call that finds the lease held runs it too
CheckLeaseDeferFirst(w) ==
    /\ workers[w].pc = "entry"
    /\ workers' = [workers EXCEPT ![w] =
         IF ~hasRedis THEN [@ EXCEPT !.pc = "download"]
         ELSE IF ~redisUp THEN [@ EXCEPT !.pc = "setlease"]
         ELSE IF IsCRLProcessing(lease, @.url)
              THEN [@ EXCEPT !.pc = "defer", !.skipped = TRUE]
         ELSE [@ EXCEPT !.pc = "setlease"]]
    /\ UNCHANGED <<registry, hasRedis, redisUp, lease, certCache, stats, db,
                   crlInfo, run, query, ingested, crashed, now, refresh>>

\* IsCRLProcessing: an error is logged and the call goes on; a held lease
\* makes the call return nil before the release is deferred
CheckLease(w) ==
    /\ workers[w].pc = "entry"
    /\ workers' = [workers EXCEPT ![w] =
         IF ~hasRedis THEN [@ EXCEPT !.pc = "download"]
         ELSE IF ~redisUp THEN [@ EXCEPT !.pc = "setlease"]
         ELSE IF IsCRLProcessing(lease, @.url)
              THEN [@ EXCEPT !.pc = "ret", !.skipped = TRUE]
         ELSE [@ EXCEPT !.pc = "setlease"]]
    /\ UNCHANGED <<registry, hasRedis, redisUp, lease, certCache, stats, db,
                   crlInfo, run, query, ingested, crashed, now, refresh>>

\* SetCRLProcessing(crlURL, true): an error is logged; the release is deferred
AcquireLease(w) ==
    /\ workers[w].pc = "setlease"
    /\ lease' = IF redisUp THEN SetCRLProcessing(workers[w].url, TRUE) ELSE lease
    /\ workers' = [workers EXCEPT ![w].pc = "download", ![w].acquired = redisUp]
    /\ UNCHANGED <<registry, hasRedis, redisUp, certCache, stats, db, crlInfo,
                   run, query, ingested, crashed, now, refresh>>

\* variant: bytes that do not parse are logged and the call goes on with an
\* empty list
DownloadKeepsGoing(w) ==
    /\ workers[w].pc = "download"
    /\ \E outcome \in DownloadOutcomes(workers[w].url) :
         IF outcome = "ok"
         THEN /\ workers' = [workers EXCEPT ![w].pc = "info",
                                            ![w].downloaded = TRUE]
              /\ ingested' = ingested \cup
                     {CertsOf(w)[i].Serial : i \in 1..Len(CertsOf(w))}
         ELSE /\ workers' = [workers EXCEPT
                               ![w].pc = IF outcome = "parse" THEN "info"
                                         ELSE AfterBody,
                               ![w].err = outcome,
                               ![w].downloaded = TRUE]
              /\ UNCHANGED ingested
    /\ UNCHANGED <<registry, hasRedis, redisUp, lease, certCache, stats, db,
                   crlInfo, run, query, crashed, now, refresh>>

\* downloadCRL and x509.ParseCRL: either may fail, which ends the call
Download(w) ==
    /\ workers[w].pc = "download"
    /\ \E outcome \in DownloadOutcomes(workers[w].url) :
         IF outcome = "ok"
         THEN /\ workers' = [workers EXCEPT ![w].pc = "info",
                                            ![w].downloaded = TRUE]
              /\ ingested' = ingested \cup
                     {CertsOf(w)[i].Serial : i \in 1..Len(CertsOf(w))}
         ELSE /\ workers' = [workers EXCEPT ![w].pc = AfterBody,
                                            ![w].err = outcome,
                                            ![w].downloaded = TRUE]
              /\ UNCHANGED ingested
    /\ UNCHANGED <<registry, hasRedis, redisUp, lease, certCache, stats, db,
                   crlInfo, run, query, crashed, now, refresh>>

\* variant: an error of db.InsertCRLInfo is returned to the caller
StoreCRLInfoReturnsError(w) ==
    /\ workers[w].pc = "info"
    /\ \E ok \in BOOLEAN :
         /\ crlInfo' = IF ok THEN InsertCRLInfo(crlInfo, workers[w].url,
                                                CRLFile(workers[w].url))
                       ELSE crlInfo
         /\ workers' = [workers EXCEPT
                          ![w].described = ok,
                          ![w].err = IF ok THEN @ ELSE "persist",
                          ![w].pc = IF ok /\ Len(CertsOf(w)) > 0 THEN "batch"
                                    ELSE AfterBody]
    /\ UNCHANGED <<registry, hasRedis, redisUp, lease, certCache, stats, db,
                   run, query, ingested, crashed, now, refresh>>

\* db.InsertCRLInfo: an error is logged; then the loop starts filling the
\* first batch
StoreCRLInfo(w) ==
    /\ workers[w].pc = "info"
    /\ \E ok \in BOOLEAN :
         /\ crlInfo' = IF ok THEN InsertCRLInfo(crlInfo, workers[w].url,
                                                CRLFile(workers[w].url))
                       ELSE crlInfo
         /\ workers' = [workers EXCEPT
                          ![w].described = ok,
                          ![w].pc = IF Len(CertsOf(w)) > 0 THEN "batch"
                                    ELSE AfterBody]
    /\ UNCHANGED <<registry, hasRedis, redisUp, lease, certCache, stats, db,
                   run, query, ingested, crashed, now, refresh>>

\* variant: a failed batch ends the loop
AfterBatchStopsOnFailure(w, flushed) ==
    IF flushed < Len(CertsOf(w)) /\ workers[w].failed = {} THEN "batch"
    ELSE AfterBody

\* after a batch and its cache writes: the next batch or the end of the body
AfterBatch(w, flushed) == IF flushed < Len(CertsOf(w)) THEN "batch" ELSE AfterBody

\* db.BatchInsertRevokedCertificates(certificates) up to now := time.Now():
\* the transaction is open and its timestamp is read
BeginBatch(w) ==
    /\ workers[w].pc = "batch"
    /\ workers' = [workers EXCEPT ![w].pc = "commit", ![w].stamp = now]
    /\ UNCHANGED <<registry, hasRedis, redisUp, lease, certCache, stats, db,
                   crlInfo, run, query, ingested, crashed, now, refresh>>

\* the rest of db.BatchInsertRevokedCertificates(certificates): the rows are
\* written and the transaction commits, or it is rolled back; an error is
\* logged, success adds to processed
FlushBatch(w) ==
    /\ workers[w].pc = "commit"
    /\ LET batch == BatchOf(w)
           keys == {batch[i].Serial : i \in 1..Len(batch)}
       IN  \E failAt \in FailPoints(batch) : LET ok == failAt = 0 IN
             /\ db' = BatchInsertRevokedCertificates(db, batch,
                                                     workers[w].stamp, failAt)
             /\ workers' = [workers EXCEPT ![w] =
                  [@ EXCEPT !.processed = IF ok THEN @ + Len(batch) ELSE @,
                            !.batches = Append(@, [i \in 1..Len(batch) |->
                                                     batch[i].Serial]),
                            !.committed = IF ok THEN @ \cup keys ELSE @,
                            !.failed = IF ok THEN @ ELSE @ \cup keys,
                            !.pc = IF hasRedis THEN "cache"
                                   ELSE AfterBatch(w, workers[w].flushed + Len(batch)),
                            !.cidx = IF hasRedis THEN 1 ELSE 0,
                            !.flushed = IF hasRedis THEN @ ELSE @ + Len(batch)]]
    /\ UNCHANGED <<registry, hasRedis, redisUp, lease, certCache, stats,
                   crlInfo, run, query, ingested, crashed, now, refresh>>

\* one round of the loop that caches the batch: SetCertificateStatus with
\* 24 hours; an error is logged
CacheCert(w) ==
    /\ workers[w].pc = "cache"
    /\ LET batch == BatchOf(w)
           cert == batch[workers[w].cidx]
           last == workers[w].cidx = Len(batch)
       IN  /\ certCache' = IF redisUp
                           THEN SetCertificateStatus(cert.Serial,
                                                     IngestStatus(cert), IngestTTL)
                           ELSE certCache
           /\ workers' = [workers EXCEPT ![w] =
                [@ EXCEPT !.cached = IF redisUp THEN @ \cup {cert.Serial} ELSE @,
                          !.cidx = IF last THEN 0 ELSE @ + 1,
                          !.flushed = IF last THEN @ + Len(batch) ELSE @,
                          !.pc = IF last
                                 THEN AfterBatch(w, workers[w].flushed + Len(batch))
                                 ELSE "cache"]]
    /\ UNCHANGED <<registry, hasRedis, redisUp, lease, stats, db, crlInfo,
                   run, query, ingested, crashed, now, refresh>>

\* variant: the release is a statement at the end of the body, which the
\* early returns of a failed download or parse skip
ReleaseLeaseAtEnd(w) ==
    /\ workers[w].pc = "defer"
    /\ LET reached == workers[w].err = "nil"
       IN  /\ lease' = IF redisUp /\ reached
                       THEN SetCRLProcessing(workers[w].url, FALSE) ELSE lease
           /\ workers' = [workers EXCEPT ![w].pc = "ret",
                                         ![w].released = redisUp /\ reached]
    /\ UNCHANGED <<registry, hasRedis, redisUp, certCache, stats, db, crlInfo,
                   run, query, ingested, crashed, now, refresh>>

\* defer s.redis.SetCRLProcessing(crlURL, false): its error is dropped
ReleaseLease(w) ==
    /\ workers[w].pc = "defer"
    /\ lease' = IF redisUp THEN SetCRLProcessing(workers[w].url, FALSE) ELSE lease
    /\ workers' = [workers EXCEPT ![w].pc = "ret", ![w].released = redisUp]
    /\ UNCHANGED <<registry, hasRedis, redisUp, certCache, stats, db, crlInfo,
                   run, query, ingested, crashed, now, refresh>>

(***************************************************************************)
(* CheckCertificateStatus                                                  *)
(***************************************************************************)
\* a call starts once the previous one returned
QueryStart(input) ==
    /\ query.pc \in {"idle", "done"}
    /\ query.calls < MaxQueries
    /\ query' = [NoQuery EXCEPT !.serial = normalizeSerial(input),
                                !.input = input,
                                !.prev =
                                   IF /\ query.pc = "done" /\ query.read
                                      /\ ~query.err /\ hasRedis
                                      /\ query.serial = normalizeSerial(input)
                                   THEN query.status
                                   ELSE <<>>,
                                !.calls = query.calls + 1,
                                !.persisted = db[normalizeSerial(input)] # <<>>,
                                !.pc = IF hasRedis THEN "get" ELSE "db"]
    /\ UNCHANGED <<registry, hasRedis, redisUp, lease, certCache, stats, db,
                   crlInfo, run, workers, ingested, crashed, now, refresh>>

\* variant: an error of the cache is returned to the caller
QueryCacheStrict ==
    /\ query.pc = "get"
    /\ LET found == CacheGetCertificateStatus(query.serial)
       IN  query' = IF ~redisUp
                    THEN [query EXCEPT !.pc = "done", !.err = TRUE,
                                       !.cacheErr = TRUE]
                    ELSE IF found # <<>>
                    THEN [query EXCEPT !.pc = "count", !.status = found,
                                       !.hit = TRUE]
                    ELSE [query EXCEPT !.pc = "count"]
    /\ UNCHANGED <<registry, hasRedis, redisUp, lease, certCache, stats, db,
                   crlInfo, run, workers, ingested, crashed, now, refresh>>

\* s.redis.GetCertificateStatus: an error is logged and treated like a miss;
\* an entry found is the status to return
QueryCache ==
    /\ query.pc = "get"
    /\ LET found == CacheGetCertificateStatus(query.serial)
       IN  query' = IF ~redisUp
                    THEN [query EXCEPT !.pc = "count", !.cacheErr = TRUE]
                    ELSE IF found # <<>>
                    THEN [query EXCEPT !.pc = "count", !.status = found,
                                       !.hit = TRUE]
                    ELSE [query EXCEPT !.pc = "count"]
    /\ UNCHANGED <<registry, hasRedis, redisUp, lease, certCache, stats, db,
                   crlInfo, run, workers, ingested, crashed, now, refresh>>

\* variant: every call is counted as a hit
QueryCountAlwaysHit ==
    /\ query.pc = "count"
    /\ stats' = IF redisUp THEN IncrementStats("hits") ELSE stats
    /\ query' = [query EXCEPT !.counted = IF redisUp THEN "hits" ELSE "none",
                              !.pc = IF query.hit THEN "done" ELSE "db"]
    /\ UNCHANGED <<registry, hasRedis, redisUp, lease, certCache, db, crlInfo,
                   run, workers, ingested, crashed, now, refresh>>

\* s.redis.IncrementStats("stats:cache_hits") before a hit returns,
\* s.redis.IncrementStats("stats:cache_misses") otherwise; its error is
\* dropped
QueryCount ==
    /\ query.pc = "count"
    /\ LET key == IF query.hit THEN "hits" ELSE "misses"
       IN  /\ stats' = IF redisUp THEN IncrementStats(key) ELSE stats
           /\ query' = [query EXCEPT
                          !.counted = IF redisUp THEN key ELSE "none",
                          !.pc = IF query.hit THEN "done" ELSE "db"]
    /\ UNCHANGED <<registry, hasRedis, redisUp, lease, certCache, db, crlInfo,
                   run, workers, ingested, crashed, now, refresh>>

\* variant: a failed read of the store is answered as "not revoked"
QueryStoreSilentFallback ==
    /\ query.pc = "db"
    /\ \E ok \in BOOLEAN :
         query' = IF ok
                  THEN [query EXCEPT
                          !.status = <<GetCertificateStatus(db, query.serial)>>,
                          !.pc = IF hasRedis THEN "writeback" ELSE "done"]
                  ELSE [query EXCEPT
                          !.status = <<CertificateStatus(query.serial, FALSE,
                                                         <<>>, <<>>, <<>>)>>,
                          !.dbErr = TRUE,
                          !.pc = IF hasRedis THEN "writeback" ELSE "done"]
    /\ UNCHANGED <<registry, hasRedis, redisUp, lease, certCache, stats, db,
                   crlInfo, run, workers, ingested, crashed, now, refresh>>

\* variant: the lookup consumes the row it read
QueryStoreConsumesRow ==
    /\ query.pc = "db"
    /\ \E ok \in BOOLEAN :
         /\ query' = IF ok
                     THEN [query EXCEPT
                             !.status = <<GetCertificateStatus(db, query.serial)>>,
                             !.read = TRUE,
                             !.pc = IF hasRedis THEN "writeback" ELSE "done"]
                     ELSE [query EXCEPT !.err = TRUE, !.dbErr = TRUE,
                                        !.read = TRUE, !.pc = "done"]
         /\ db' = IF ok THEN [db EXCEPT ![query.serial] = <<>>] ELSE db
    /\ UNCHANGED <<registry, hasRedis, redisUp, lease, certCache, stats,
                   crlInfo, run, workers, ingested, crashed, now, refresh>>

\* s.db.GetCertificateStatus: an error is returned to the caller
QueryStore ==
    /\ query.pc = "db"
    /\ \E ok \in BOOLEAN :
         query' = IF ok
                  THEN [query EXCEPT
                          !.status = <<GetCertificateStatus(db, query.serial)>>,
                          !.read = TRUE,
                          !.pc = IF hasRedis THEN "writeback" ELSE "done"]
                  ELSE [query EXCEPT !.err = TRUE, !.dbErr = TRUE,
                                     !.read = TRUE, !.pc = "done"]
    /\ UNCHANGED <<registry, hasRedis, redisUp, lease, certCache, stats, db,
                   crlInfo, run, workers, ingested, crashed, now, refresh>>

\* the TTL of the write-back
WriteBackTTL(status) == IF status.is_revoked THEN RevokedTTL ELSE NotRevokedTTL

\* variant: only a revoked status is written back
QueryWriteBackRevokedOnly ==
    /\ query.pc = "writeback"
    /\ LET status == query.status[1]
       IN  certCache' = IF redisUp /\ status.is_revoked
                        THEN SetCertificateStatus(query.serial, status,
                                                  WriteBackTTL(status))
                        ELSE certCache
    /\ query' = [query EXCEPT !.pc = "done"]
    /\ UNCHANGED <<registry, hasRedis, redisUp, lease, stats, db, crlInfo, run,
                   workers, ingested, crashed, now, refresh>>

\* s.redis.SetCertificateStatus(serial, status, ttl): an error is logged
QueryWriteBack ==
    /\ query.pc = "writeback"
    /\ LET status == query.status[1]
       IN  certCache' = IF redisUp
                        THEN SetCertificateStatus(query.serial, status,
                                                  WriteBackTTL(status))
                        ELSE certCache
    /\ query' = [query EXCEPT !.pc = "done"]
    /\ UNCHANGED <<registry, hasRedis, redisUp, lease, stats, db, crlInfo,
                   run, workers, ingested, crashed, now, refresh>>

(***************************************************************************)
(* CertificateHandler.ForceRefresh                                         *)
(***************************************************************************)
\* go func() { h.crlService.ProcessAllCRLs(crlURLsFile) }(): the goroutine
\* exists; it is the invocation "manual"
ForceRefreshGo ==
    /\ refresh.pc = "idle"
    /\ refresh' = [refresh EXCEPT !.pc = "spawned"]
    /\ UNCHANGED <<registry, hasRedis, redisUp, lease, certCache, stats, db,
                   crlInfo, run, workers, query, ingested, crashed, now>>

\* variant: the handler calls ProcessAllCRLs itself and reports its error
ForceRefreshRespondWaits ==
    /\ refresh.pc = "spawned"
    /\ run["manual"].pc = "returned"
    /\ refresh' = [refresh EXCEPT
                     !.pc = "responded",
                     !.response =
                        IF run["manual"].result = "nil"
                        THEN <<[code |-> StatusAccepted, status |-> "processing"]>>
                        ELSE <<[code |-> 500, status |-> "error"]>>]
    /\ UNCHANGED <<registry, hasRedis, redisUp, lease, certCache, stats, db,
                   crlInfo, run, workers, query, ingested, crashed, now>>

\* c.JSON(http.StatusAccepted, {"status": "processing"})
ForceRefreshRespond ==
    /\ refresh.pc = "spawned"
    /\ refresh' = [refresh EXCEPT
                     !.pc = "responded",
                     !.response = <<[code |-> StatusAccepted,
                                     status |-> "processing"]>>]
    /\ UNCHANGED <<registry, hasRedis, redisUp, lease, certCache, stats, db,
                   crlInfo, run, workers, query, ingested, crashed, now>>

(***************************************************************************)
(* Environment: the cache server and the process                           *)
(***************************************************************************)
\* a key with a TTL expires
ExpireLease(u) ==
    /\ lease[u] # <<>>
    /\ lease[u][1].ttl > 0
    /\ lease' = [lease EXCEPT ![u] = <<>>]
    /\ UNCHANGED <<registry, hasRedis, redisUp, certCache, stats, db, crlInfo,
                   run, workers, query, ingested, crashed, now, refresh>>

ExpireCert(s) ==
    /\ certCache[s] # <<>>
    /\ certCache[s][1].ttl > 0
    /\ certCache' = [certCache EXCEPT ![s] = <<>>]
    /\ UNCHANGED <<registry, hasRedis, redisUp, lease, stats, db, crlInfo,
                   run, workers, query, ingested, crashed, now, refresh>>

\* the wall clock advances
Tick ==
    /\ now < MaxClock
    /\ now' = now + 1
    /\ UNCHANGED <<registry, hasRedis, redisUp, lease, certCache, stats, db,
                   crlInfo, run, workers, query, ingested, crashed, refresh>>

\* the cache becomes unreachable, or reachable again
RedisFail ==
    /\ hasRedis /\ redisUp
    /\ redisUp' = FALSE
    /\ UNCHANGED <<registry, hasRedis, lease, certCache, stats, db, crlInfo,
                   run, workers, query, ingested, crashed, now, refresh>>

RedisRecover ==
    /\ hasRedis /\ ~redisUp
    /\ redisUp' = TRUE
    /\ UNCHANGED <<registry, hasRedis, lease, certCache, stats, db, crlInfo,
                   run, workers, query, ingested, crashed, now, refresh>>

\* the process is killed while an invocation runs and is started again: the
\* goroutines and their deferred calls are gone, cache and store remain
Crash ==
    /\ ~crashed.happened
    /\ \E r \in Runs : run[r].pc = "running"
    /\ crashed' = [happened |-> TRUE,
                   stale |-> {u \in URLs : IsCRLProcessing(lease, u)}]
    /\ run' = [r \in Runs |-> NoRun]
    /\ workers' = [w \in Workers |-> NoWorker]
    /\ query' = IF query.pc = "done" THEN query
                ELSE [NoQuery EXCEPT !.calls = query.calls]
    /\ UNCHANGED <<registry, hasRedis, redisUp, lease, certCache, stats, db,
                   crlInfo, ingested, now, refresh>>

(***************************************************************************)
(* Specifications                                                          *)
(***************************************************************************)
WorkerStep(w) ==
    \/ SemAcquire(w)
    \/ CheckLease(w)
    \/ AcquireLease(w)
    \/ Download(w)
    \/ StoreCRLInfo(w)
    \/ BeginBatch(w)
    \/ FlushBatch(w)
    \/ CacheCert(w)
    \/ ReleaseLease(w)
    \/ WorkerReturn(w)

QueryStep ==
    \/ \E input \in QuerySerials : QueryStart(input)
    \/ QueryCache
    \/ QueryCount
    \/ QueryStore
    \/ QueryWriteBack

\* the invocations r of ProcessAllCRLs and their goroutines
Ingestion(R) ==
    \/ \E r \in R : RunStart(r)
    \/ \E w \in Workers : WorkerStep(w)
    \/ \E r \in R : RunReturn(r)

\* the registry of every invocation
Registry(scheduled, manual) ==
    {[r \in Runs |-> IF r = "scheduled" THEN scheduled ELSE manual]}

\* One scheduled ingestion of u1 next to a client's queries; cache entries
\* expire.
Init == InitWith(Registry(<<"u1">>, <<>>), {TRUE}, TRUE)

Next ==
    \/ Ingestion({"scheduled"})
    \/ QueryStep
    \/ \E s \in Serials : ExpireCert(s)

Spec == Init /\ [][Next]_vars

\* The same with the cache unreachable from the start and for good.
InitOutage == InitWith(Registry(<<"u1">>, <<>>), {TRUE}, FALSE)

NextOutage ==
    \/ Ingestion({"scheduled"})
    \/ QueryStep

SpecOutage == InitOutage /\ [][NextOutage]_vars

\* A scheduled run and a manual refresh of the same one-source registry, with
\* a working cache and no expiry.
InitRace == InitWith(Registry(<<"u2">>, <<"u2">>), {TRUE}, TRUE)

NextRace == Ingestion(Runs)

SpecRace == InitRace /\ [][NextRace]_vars

\* The same two invocations; the cache may fail and recover and leases expire.
InitLease == InitWith(Registry(<<"u2">>, <<"u2">>), {TRUE}, TRUE)

NextLease ==
    \/ Ingestion(Runs)
    \/ \E u \in URLs : ExpireLease(u)
    \/ RedisFail
    \/ RedisRecover

SpecLease == InitLease /\ [][NextLease]_vars

\* The same two invocations; the process may be killed once, and the cache
\* server expires every key that has a TTL.
InitCrash == InitWith(Registry(<<"u2">>, <<"u2">>), {TRUE}, TRUE)

NextCrash ==
    \/ Ingestion(Runs)
    \/ \E u \in URLs : ExpireLease(u)
    \/ Crash

SpecCrash ==
    InitCrash /\ [][NextCrash]_vars /\ \A u \in URLs : WF_vars(ExpireLease(u))

\* One invocation over two sources, with or without a cache, which may fail
\* and recover.
InitRun == InitWith(Registry(<<"u1", "u2">>, <<>>), BOOLEAN, TRUE)

NextRun ==
    \/ Ingestion({"scheduled"})
    \/ RedisFail
    \/ RedisRecover

SpecRun == InitRun /\ [][NextRun]_vars

\* One invocation over more sources than the counting gate admits, no cache.
GateRegistry == [i \in 1..GateSources |-> "dead"]

InitGate == InitWith(Registry(GateRegistry, <<>>), {FALSE}, TRUE)

NextGate ==
    \/ RunStart("scheduled")
    \/ \E w \in Workers : SemAcquire(w)
    \/ \E w \in Workers : CheckLease(w)
    \/ \E w \in Workers : Download(w)
    \/ \E w \in Workers : WorkerReturn(w)
    \/ RunReturn("scheduled")

SpecGate == InitGate /\ [][NextGate]_vars

\* A scheduled run and a manual refresh that overlap, each over a registry the
\* counting gate of one invocation admits whole, no cache.
OverlapRegistry == [i \in 1..OverlapSources |-> "dead"]

InitOverlap == InitWith(Registry(OverlapRegistry, OverlapRegistry), {FALSE},
                        TRUE)

NextOverlap ==
    \/ \E r \in Runs : RunStart(r)
    \/ \E w \in Workers : SemAcquire(w)
    \/ \E w \in Workers : CheckLease(w)
    \/ \E w \in Workers : Download(w)
    \/ \E w \in Workers : WorkerReturn(w)
    \/ \E r \in Runs : RunReturn(r)

SpecOverlap == InitOverlap /\ [][NextOverlap]_vars

\* One invocation over a registry of any size up to one that saturates the
\* counting gate (no cache), or over a good and a dead source with or without
\* a cache.  Every goroutine that can take a step eventually takes it: the Go
\* scheduler runs every runnable goroutine, and every call of a worker
\* returns (the HTTP client gives up after its timeout).
TermRegistries == {[i \in 1..n |-> "dead"] : n \in 0..GateSources}

InitTerm ==
    \/ InitWith(UNION {Registry(reg, <<>>) : reg \in TermRegistries}, {FALSE},
                TRUE)
    \/ InitWith(Registry(<<"u2", "dead">>, <<>>), BOOLEAN, TRUE)

NextTerm == Ingestion({"scheduled"})

SpecTerm ==
    /\ InitTerm /\ [][NextTerm]_vars
    /\ \A w \in {"scheduled"} \X Slots : WF_vars(WorkerStep(w))
    /\ WF_vars(RunReturn("scheduled"))

\* A scheduled run and a manual refresh of the same one-source registry while
\* every command to the cache returns an error.
InitOutageRace == InitWith(Registry(<<"u2">>, <<"u2">>), {TRUE}, FALSE)

NextOutageRace == Ingestion(Runs)

SpecOutageRace == InitOutageRace /\ [][NextOutageRace]_vars

\* One scheduled ingestion of u2 next to a client's queries for the serial u2
\* lists and for one it does not list; the cache may fail and recover.
InitFaults == InitWith(Registry(<<"u2">>, <<>>), {TRUE}, TRUE)

NextFaults ==
    \/ Ingestion({"scheduled"})
    \/ \E input \in {"1", "9"} : QueryStart(input)
    \/ QueryCache
    \/ QueryCount
    \/ QueryStore
    \/ QueryWriteBack
    \/ RedisFail
    \/ RedisRecover

SpecFaults == InitFaults /\ [][NextFaults]_vars

\* Two invocations over the same one-source registry, the second started
\* after the first returned (the scheduler's next round), with or without a
\* cache; the clock advances.
InitTwice == InitWith(Registry(<<"u1">>, <<"u1">>), BOOLEAN, TRUE)

NextTwice ==
    \/ RunStart("scheduled")
    \/ run["scheduled"].pc = "returned" /\ RunStart("manual")
    \/ \E w \in Workers : WorkerStep(w)
    \/ \E r \in Runs : RunReturn(r)
    \/ Tick

SpecTwice == InitTwice /\ [][NextTwice]_vars

\* One invocation over one source, a list of three, of one or of BulkEntries
\* entries, with or without a cache.
InitBatch ==
    InitWith(UNION {Registry(<<u>>, <<>>) : u \in {"u1", "u2", "bulk"}},
             BOOLEAN, TRUE)

NextBatch == Ingestion({"scheduled"})

SpecBatch == InitBatch /\ [][NextBatch]_vars

\* One invocation over two sources that both list serial 1, without a cache;
\* the clock advances.
InitStamp == InitWith(Registry(<<"u1", "u2">>, <<>>), {FALSE}, TRUE)

NextStamp ==
    \/ RunStart("scheduled")
    \/ \E w \in Workers : SemAcquire(w)
    \/ \E w \in Workers : CheckLease(w)
    \/ \E w \in Workers : Download(w)
    \/ \E w \in Workers : StoreCRLInfo(w)
    \/ \E w \in Workers : BeginBatch(w)
    \/ \E w \in Workers : FlushBatch(w)
    \/ \E w \in Workers : WorkerReturn(w)
    \/ RunReturn("scheduled")
    \/ Tick

SpecStamp == InitStamp /\ [][NextStamp]_vars

\* One scheduled ingestion of u1 next to a client that writes serials in
\* several textual forms.
InitForms == InitWith(Registry(<<"u1">>, <<>>), {TRUE}, TRUE)

NextForms ==
    \/ Ingestion({"scheduled"})
    \/ \E f \in SerialForms : QueryStart(f.text)
    \/ QueryCache
    \/ QueryCount
    \/ QueryStore
    \/ QueryWriteBack

SpecForms == InitForms /\ [][NextForms]_vars

\* One POST /admin/refresh over a two-source registry.  The goroutine the
\* handler starts is scheduled, and each of its calls returns: the HTTP
\* client has a 30-second timeout, the cache and the store answer or fail.
InitRefresh == InitWith(Registry(<<>>, <<"u1", "dead">>), BOOLEAN, TRUE)

RefreshGoroutine ==
    \/ refresh.pc # "idle" /\ RunStart("manual")
    \/ \E w \in Workers : WorkerStep(w)
    \/ RunReturn("manual")

NextRefresh ==
    \/ ForceRefreshGo
    \/ ForceRefreshRespond
    \/ RefreshGoroutine

SpecRefresh == InitRefresh /\ [][NextRefresh]_vars /\ WF_vars(RefreshGoroutine)

(***************************************************************************)
(* Properties                                                              *)
(***************************************************************************)
\* positions between the acquisition of the lease and its release: the
\* download/parse/persist sequence
Ingesting == {"download", "info", "batch", "commit", "cache"}

\* positions inside ProcessSingleCRL
InCall == {"entry", "setlease"} \cup Ingesting \cup {"defer"}

IngestingOn(u) == {w \in Workers : workers[w].url = u /\ workers[w].pc \in Ingesting}

SerialsOf(u) ==
    {Certificates(CRLFile(u))[i].Serial : i \in 1..Len(Certificates(CRLFile(u)))}

NotRevoked(serial) == CertificateStatus(serial, FALSE, <<>>, <<>>, <<>>)

\* C1: at most one ProcessSingleCRL call per source is in its
\* download/parse/persist sequence at any time.
C1_AtMostOneIngestionPerSource ==
    \A u \in URLs : Cardinality(IngestingOn(u)) <= 1

\* C2 as claimed: whenever a call that acquired the lease of its source
\* returns, IsCRLProcessing of that source is false.
C2_LeaseClearedOnReturn ==
    [][\A w \in Workers :
          (/\ workers[w].acquired
           /\ workers[w].pc \in InCall
           /\ workers'[w].pc = "ret")
          => ~IsCRLProcessing(lease', workers[w].url)]_vars

\* C2 amended: whenever a call that acquired the lease of its source returns
\* while the cache accepts commands, after a success and after a failed
\* download or parse alike, IsCRLProcessing of that source is false.
C2_LeaseClearedWhenCacheAccepts ==
    [][\A w \in Workers :
          (/\ workers[w].acquired
           /\ workers[w].pc \in InCall
           /\ workers'[w].pc = "ret"
           /\ redisUp)
          => ~IsCRLProcessing(lease', workers[w].url)]_vars

C2_Witness ==
    \E w \in Workers :
        /\ workers[w].pc = "ret" /\ workers[w].acquired /\ workers[w].released
        /\ workers[w].err # "nil"
        /\ ~IsCRLProcessing(lease, workers[w].url)

\* a held lease that no live call will release
StaleLease(u) ==
    /\ IsCRLProcessing(lease, u)
    /\ \A w \in Workers :
          workers[w].url = u => workers[w].pc \notin ({"setlease"} \cup Ingesting \cup {"defer"})

\* C3: a lease left behind by a killed process expires, and a call that
\* checks the lease of a source when it is not held goes on to ingest it.
C3_StaleLeaseExpires ==
    /\ \A u \in URLs : StaleLease(u) ~> ~IsCRLProcessing(lease, u)
    /\ [][\A w \in Workers :
            (/\ workers[w].pc = "entry"
             /\ workers'[w].pc \notin {"entry", "absent"}
             /\ ~IsCRLProcessing(lease, workers[w].url))
            => workers'[w].pc = "setlease"]_vars

C3_Witness ==
    /\ crashed.happened
    /\ \E w \in Workers :
         /\ workers[w].url \in crashed.stale
         /\ workers[w].acquired
         /\ workers[w].pc = "info"

\* C4: a call that finds the lease held returns nil, downloads nothing and
\* none of its steps changes the store, the certificate cache or the lease.
C4_ContentionIsNoOp ==
    [][\A w \in Workers :
          (workers'[w].skipped /\ workers'[w] # workers[w])
          => /\ workers'[w].pc \in {"ret", "done"}
             /\ workers'[w].err = "nil"
             /\ ~workers'[w].downloaded
             /\ UNCHANGED <<lease, db, crlInfo, certCache>>]_vars

C4_Witness ==
    \E w, h \in Workers :
        /\ workers[w].skipped /\ workers[w].pc = "done"
        /\ workers[h].url = workers[w].url /\ workers[h].pc \in Ingesting
        /\ workers[h].acquired
        /\ IsCRLProcessing(lease, workers[w].url)

\* C5: when ProcessAllCRLs has returned, it returned nil unless the registry
\* could not be loaded, and every source whose own download, parse and
\* batches succeeded has all its records committed, whatever happened to the
\* other sources.
C5_FailureIsolation ==
    \A r \in Runs :
        run[r].pc = "returned" =>
            /\ run[r].result = "error" => WorkersOf(r) = {}
            /\ \A w \in WorkersOf(r) :
                  /\ workers[w].pc = "done"
                  /\ (workers[w].err = "nil" /\ workers[w].failed = {})
                       => /\ workers[w].downloaded
                          /\ workers[w].committed = SerialsOf(workers[w].url)

C5_Witness ==
    /\ run["scheduled"].pc = "returned"
    /\ run["scheduled"].result = "nil"
    /\ \E w, v \in WorkersOf("scheduled") :
         /\ workers[w].err # "nil"
         /\ workers[v].err = "nil"
         /\ workers[v].committed = SerialsOf(workers[v].url)
         /\ workers[v].committed # {}

\* calls of ProcessSingleCRL in flight in an invocation
InFlight(r) == {w \in WorkersOf(r) : workers[w].pc \in InCall}

\* C6: within one invocation of ProcessAllCRLs at most semaphoreCap calls of
\* ProcessSingleCRL are in flight.
C6_BoundedParallelism ==
    \A r \in Runs : Cardinality(InFlight(r)) <= semaphoreCap

C6_Witness ==
    /\ Len(registry["scheduled"]) > semaphoreCap
    /\ Cardinality(InFlight("scheduled")) = semaphoreCap
    /\ \E w \in WorkersOf("scheduled") : workers[w].pc = "spawned"

\* C7: when ProcessAllCRLs has returned nil, every source of the registry
\* has been handed to ProcessSingleCRL exactly once and every worker is done.
C7_ReturnsAfterEverySource ==
    \A r \in Runs :
        (run[r].pc = "returned" /\ run[r].result = "nil") =>
            /\ run[r].wg = 0 /\ run[r].sem = 0
            /\ \A i \in 1..Len(registry[r]) :
                  /\ workers[<<r, i>>].pc = "done"
                  /\ workers[<<r, i>>].url = registry[r][i]
                  /\ workers[<<r, i>>].calls = 1

C7_Witness ==
    /\ run["scheduled"].pc = "returned"
    /\ run["scheduled"].result = "nil"
    /\ Len(registry["scheduled"]) = 2
    /\ \E w \in WorkersOf("scheduled") : workers[w].err # "nil"

\* the reason text the claim expects for a stored row
ExpectedReason(row) ==
    IF row.reason_text # "" THEN row.reason_text ELSE ReasonLookup(row.reason)

\* C8: a CheckCertificateStatus call made for a serial that has a row in the
\* store reports revoked with the table text of the row's reason code (or
\* the override text), unless the store read fails.
C8_PersistedReportsTableText ==
    (query.pc = "done" /\ query.persisted /\ ~query.dbErr) =>
        /\ ~query.err
        /\ query.status # <<>>
        /\ query.status[1].is_revoked
        /\ query.status[1].reason = <<ExpectedReason(db[query.serial][1])>>

\* C9: a CheckCertificateStatus call for a serial that no parsed list has
\* contained answers not revoked, with no optional field, unless the store
\* read fails.
C9_NeverListedNotRevoked ==
    (query.pc = "done" /\ query.serial \notin ingested) =>
        IF query.dbErr
        THEN query.err /\ query.status = <<>>
        ELSE ~query.err /\ query.status = <<NotRevoked(query.serial)>>

C9_Witness ==
    /\ query.pc = "done"
    /\ query.serial \notin ingested
    /\ ingested # {}
    /\ query.hit
    /\ \E s \in ingested : db[s] # <<>>

\* C10: with the cache unreachable, CheckCertificateStatus returns what the
\* read of the store yields: its status without an error, or its error.
C10_OutageAnswersFromStore ==
    /\ [](~redisUp)
    /\ [][(query.pc = "db" /\ query'.pc # "db") =>
            IF query'.dbErr
            THEN query'.err /\ query'.status = <<>>
            ELSE /\ ~query'.err
                 /\ query'.status = <<GetCertificateStatus(db, query.serial)>>]_vars
    /\ [][(query.pc = "writeback" /\ query' # query) =>
            /\ query'.pc = "done"
            /\ query'.status = query.status
            /\ query'.err = query.err]_vars
    /\ [](query.pc = "done" => (~query.hit /\ (query.err <=> query.dbErr)))

C10_Witness ==
    /\ ~redisUp
    /\ query.pc = "done"
    /\ ~query.err
    /\ query.status # <<>>
    /\ query.status[1].is_revoked

\* C11: while every command to the cache returns an error, a call of
\* ProcessSingleCRL whose download, parse and batches succeed commits every
\* record of its source and has the source's crl_info row written, and no
\* source is in the download/parse/persist sequence of two calls at once.
C11_OutageIngestionCorrect ==
    ~redisUp =>
        /\ \A w \in Workers :
              (workers[w].pc = "done" /\ workers[w].err = "nil"
                 /\ workers[w].failed = {})
              => /\ workers[w].downloaded
                 /\ workers[w].committed = SerialsOf(workers[w].url)
                 /\ \A s \in SerialsOf(workers[w].url) : db[s] # <<>>
        /\ \A u \in URLs : Cardinality(IngestingOn(u)) <= 1

\* C12: when CheckCertificateStatus gets past the cache (a miss or an error)
\* and the read of the store fails, the call ends there with an error and no
\* status, and that step leaves the certificate cache as it was.
C12_StoreFailureIsHardError ==
    /\ [][(query.pc = "db" /\ query'.dbErr) =>
            /\ query'.pc = "done"
            /\ query'.err
            /\ query'.status = <<>>
            /\ certCache' = certCache]_vars
    /\ []((query.pc \in {"writeback", "done"} /\ query.dbErr) =>
            (query.pc = "done" /\ query.err /\ query.status = <<>>))

C12_Witness ==
    /\ query.pc = "done"
    /\ query.dbErr /\ query.err /\ query.status = <<>>
    /\ ~redisUp
    /\ db[query.serial] # <<>>
    /\ certCache[query.serial] = <<>>

\* no call of ProcessSingleCRL or CheckCertificateStatus is under way
Quiescent ==
    /\ query.pc \in {"idle", "done"}
    /\ \A w \in Workers : workers[w].pc \in {"absent", "done"}

\* C13: once a CheckCertificateStatus call and the ProcessSingleCRL call that
\* persists the serial have both completed, the cache does not hold a
\* not-revoked entry for a serial that has a row in the store.
C13_NoStaleNotRevoked ==
    Quiescent =>
        \A s \in Serials :
            (db[s] # <<>> /\ certCache[s] # <<>>)
            => Unmarshal(certCache[s][1].value).is_revoked

\* a stored row without its timestamp
Record(row) ==
    [revocation_date |-> row.revocation_date, reason |-> row.reason,
     reason_text |-> row.reason_text,
     certificate_authority |-> row.certificate_authority]

RecordsOf(table) ==
    [s \in Serials |-> IF table[s] = <<>> THEN <<>> ELSE <<Record(table[s][1])>>]

\* C14: once a call of ProcessSingleCRL for a source has committed all its
\* batches, a second call for the same unchanged source that starts after the
\* first returned changes no record of the store: the serials and their
\* revocation dates, reason codes, reason texts and issuing authorities stay
\* as the first call left them; only updated_at may change.
C14_IdempotentIngestion ==
    [][LET first == workers[<<"scheduled", 1>>]
       IN  (/\ first.pc = "done" /\ first.err = "nil" /\ first.failed = {}
            /\ first.committed = SerialsOf(first.url))
           => RecordsOf(db') = RecordsOf(db)]_vars

C14_Witness ==
    LET first == workers[<<"scheduled", 1>>]
        second == workers[<<"manual", 1>>]
    IN  /\ first.pc = "done" /\ first.err = "nil" /\ first.failed = {}
        /\ second.pc = "done" /\ second.url = first.url
        /\ second.committed = SerialsOf(first.url)
        /\ \A s \in SerialsOf(first.url) : db[s][1].updated_at > first.stamp

RECURSIVE Concat(_)
Concat(seqs) == IF seqs = <<>> THEN <<>> ELSE Head(seqs) \o Concat(Tail(seqs))

Range(seq) == {seq[i] : i \in 1..Len(seq)}

\* ceil(n / b)
Ceil(n, b) == (n + b - 1) \div b

\* the serials of the records of a call's list, in list order
SerialList(w) == [i \in 1..Len(CertsOf(w)) |-> CertsOf(w)[i].Serial]

\* C15: the batches a call hands to the store are consecutive slices of its
\* list: all but the last hold batchSize records; once the body has run to
\* its end there are ceil(N / batchSize) of them, the last holds N mod
\* batchSize records when that is not zero, together they are the list (each
\* entry in exactly one batch), and when none failed N records are committed.
\* Each change of the table is the transaction of one batch.
C15_BatchBoundaries ==
    /\ [](\A w \in Workers :
            workers[w].pc \notin {"absent", "spawned", "entry", "setlease",
                                  "download"}
            /\ workers[w].err = "nil" /\ ~workers[w].skipped =>
            LET b == workers[w].batches
                n == Len(CertsOf(w))
                ended == workers[w].pc \in {"defer", "ret", "done"}
            IN  /\ \A i \in 1..Len(b) :
                      \/ Len(b[i]) = batchSize
                      \/ /\ i = Len(b) /\ i = Ceil(n, batchSize)
                         /\ Len(b[i]) = n % batchSize
                /\ Concat(b) = SubSeq(SerialList(w), 1, Len(Concat(b)))
                /\ ended =>
                      /\ Len(b) = Ceil(n, batchSize)
                      /\ Concat(b) = SerialList(w)
                      /\ workers[w].failed = {} =>
                            /\ workers[w].processed = n
                            /\ workers[w].committed = Range(SerialList(w))
                            /\ \A s \in Range(SerialList(w)) : db[s] # <<>>)
    /\ [][db' # db =>
            \E w \in Workers :
                /\ Len(workers'[w].batches) = Len(workers[w].batches) + 1
                /\ {s \in Serials : db'[s] # db[s]} \subseteq
                      Range(workers'[w].batches[Len(workers'[w].batches)])]_vars

C15_Witness ==
    \E w \in Workers :
        LET b == workers[w].batches
        IN  /\ workers[w].pc = "done" /\ workers[w].url = "bulk"
            /\ workers[w].failed = {}
            /\ workers[w].processed = BulkEntries
            /\ Len(b) >= 3
            /\ Len(b[1]) = batchSize
            /\ Len(b[Len(b)]) < batchSize
            /\ \A s \in SerialsOf("bulk") : db[s] # <<>>

\* C16: a call of ProcessSingleCRL whose downloaded bytes do not parse
\* returns that error; none of its steps changes the revoked-certificate
\* table, the crl_info table or the certificate cache; it hands no batch to
\* the store; and its deferred release runs, so that the lease of its source
\* is not held after its return when the cache accepts that write.
C16_MalformedRejected ==
    /\ [][\A w \in Workers :
            (workers'[w].err = "parse" /\ workers'[w] # workers[w]) =>
                /\ UNCHANGED <<db, crlInfo, certCache>>
                /\ workers'[w].pc \in {"defer", "ret", "done"}
                /\ workers'[w].pc = "ret" =>
                      /\ workers[w].pc = "defer"
                      /\ redisUp => ~IsCRLProcessing(lease', workers[w].url)]_vars
    /\ [](\A w \in Workers :
            workers[w].err = "parse" =>
                /\ workers[w].batches = <<>> /\ workers[w].processed = 0
                /\ workers[w].committed = {} /\ workers[w].cached = {}
                /\ ~workers[w].described)

C16_Witness ==
    \E w \in Workers :
        /\ workers[w].pc = "done" /\ workers[w].err = "parse"
        /\ workers[w].acquired /\ workers[w].released
        /\ ~IsCRLProcessing(lease, workers[w].url)
        /\ crlInfo[workers[w].url] = <<>>
        /\ \A s \in Serials : db[s] = <<>> /\ certCache[s] = <<>>

\* the row a committed write of a list entry of source u must leave
WrittenRow(u, i, stamp) ==
    LET crl == CRLFile(u)
        entry == crl.RevokedCertificates[i]
    IN  [revocation_date |-> entry.RevocationTime,
         reason |-> ExtractReason(entry.Extensions, 0),
         reason_text |-> ExtractReasonText(entry.Extensions),
         certificate_authority |-> extractIssuerName(crl.Issuer),
         updated_at |-> stamp]

\* C17: the table holds at most one row per serial, and right after a batch
\* commits, the row of each of its serials is exactly the row of that write:
\* revocation date, reason code, reason text and issuing authority of the
\* writing source's entry, whatever row the serial had before.
C17_UniqueAndFullyReplaced ==
    /\ [](\A s \in Serials : Len(db[s]) <= 1)
    /\ [][\A w \in Workers :
            (workers[w].pc = "commit"
               /\ workers'[w].processed > workers[w].processed) =>
            \A i \in workers[w].flushed + 1 .. workers[w].flushed
                                                 + Len(BatchOf(w)) :
                db'[formatSerial(CRLFile(workers[w].url)
                                   .RevokedCertificates[i].SerialNumber)]
                  = <<WrittenRow(workers[w].url, i, workers[w].stamp)>>]_vars

C17_Witness ==
    \E w, v \in Workers :
        /\ workers[w].url = "u1" /\ "1" \in workers[w].committed
        /\ workers[v].url = "u2" /\ "1" \in workers[v].committed
        /\ db["1"] = <<WrittenRow("u2", 1, workers[v].stamp)>>
        /\ WrittenRow("u2", 1, 0).certificate_authority
             # WrittenRow("u1", 1, 0).certificate_authority
        /\ WrittenRow("u2", 1, 0).reason # WrittenRow("u1", 1, 0).reason

\* C18: the updated_at of a stored row never decreases from one state of
\* the table to the next.
C18_UpdatedAtMonotonic ==
    [][\A s \in Serials :
          (db[s] # <<>> /\ db'[s] # <<>>)
          => db'[s][1].updated_at >= db[s][1].updated_at]_vars

\* C19: every status CheckCertificateStatus returns, read from the cache or
\* from the store, has its revocation date, reason and issuing authority all
\* present when it says revoked and all absent when it says not revoked.
C19_StatusShape ==
    (query.pc \in {"writeback", "done"} /\ query.status # <<>>) =>
        LET st == query.status[1]
        IN  IF st.is_revoked
            THEN /\ st.revocation_date # <<>>
                 /\ st.reason # <<>>
                 /\ st.certificate_authority # <<>>
            ELSE /\ st.revocation_date = <<>>
                 /\ st.reason = <<>>
                 /\ st.certificate_authority = <<>>

C19_Witness ==
    /\ query.pc = "done" /\ query.hit
    /\ query.status # <<>>
    /\ query.status[1].is_revoked
    /\ query.status[1].reason = <<"">>
    /\ query.status[1].certificate_authority # <<>>

\* the serial number a text denotes
SerialValue(text) == (CHOOSE f \in SerialForms : f.text = text).value

\* C20: the key CheckCertificateStatus looks up in the cache and in the
\* store is the key under which the ingestion stores the serial number that
\* the caller's text denotes: its canonical decimal text.
C20_SameKeySpace ==
    query.pc # "idle" =>
        query.serial = formatSerial(SerialValue(query.input))

\* C21: ForceRefresh can answer as soon as it has started the goroutine,
\* whatever the invocation is doing; its answer is 202 "processing" and stays
\* so whatever the invocation does later; and the invocation it started
\* returns.
C21_RefreshDoesNotBlock ==
    /\ [](refresh.pc = "spawned" => ENABLED ForceRefreshRespond)
    /\ [](refresh.pc = "responded" =>
            refresh.response = <<[code |-> StatusAccepted,
                                  status |-> "processing"]>>)
    /\ [][refresh.pc = "responded" => refresh' = refresh]_vars
    /\ (refresh.pc # "idle") ~> (run["manual"].pc = "returned")

C21_Witness ==
    /\ refresh.pc = "responded"
    /\ refresh.response[1].code = StatusAccepted
    /\ run["manual"].pc = "running"
    /\ \E w \in WorkersOf("manual") : workers[w].pc = "download"

\* C22: a call of BatchInsertRevokedCertificates either leaves the row of
\* every record of its batch as that call wrote it, or leaves the table as
\* it was; when it reports a failure, at the Exec of any row or at Commit,
\* the table is as it was.  Rows of other serials are not touched.
C22_BatchAtomicity ==
    [][\A w \in Workers :
          (workers[w].pc = "commit" /\ workers'[w].pc # "commit") =>
          LET first == workers[w].flushed + 1
              last == workers[w].flushed + Len(BatchOf(w))
              keys == {SerialList(w)[i] : i \in first..last}
          IN  /\ \/ db' = db
                 \/ \A i \in first..last :
                       db'[SerialList(w)[i]]
                         = <<WrittenRow(workers[w].url, i, workers[w].stamp)>>
              /\ workers'[w].failed # workers[w].failed => db' = db
              /\ workers'[w].processed = workers[w].processed => db' = db
              /\ \A s \in Serials \ keys : db'[s] = db[s]]_vars

C22_Witness ==
    \E w \in Workers :
        /\ workers[w].pc = "done" /\ workers[w].url = "bulk"
        /\ Cardinality(workers[w].failed) = batchSize
        /\ \A s \in workers[w].failed : db[s] = <<>>
        /\ \A s \in workers[w].committed : db[s] # <<>>
        /\ workers[w].committed # {}

\* C23: no step of a call changes a row that one of its earlier batches
\* committed, in particular not the failure of a later batch; and when the
\* body of a call has run to its end, every batch of the list was handed to
\* the store exactly once, the failed ones included: the records of the
\* failed batches are not committed by that call and all others are.
C23_PartialProgress ==
    /\ [][\A w \in Workers : \A s \in workers[w].committed :
            db'[s] = db[s]]_vars
    /\ [](\A w \in Workers :
            (workers[w].pc \in {"defer", "ret", "done"}
               /\ workers[w].err = "nil" /\ ~workers[w].skipped) =>
            /\ Len(workers[w].batches) = Ceil(Len(CertsOf(w)), batchSize)
            /\ Concat(workers[w].batches) = SerialList(w)
            /\ workers[w].committed \cap workers[w].failed = {}
            /\ workers[w].committed \cup workers[w].failed
                  = Range(SerialList(w))
            /\ workers[w].processed = Cardinality(workers[w].committed))

C23_Witness ==
    \E w \in Workers :
        /\ workers[w].pc = "done" /\ workers[w].url = "bulk"
        /\ Len(workers[w].batches) >= 3
        /\ workers[w].failed = Range(workers[w].batches[2])
        /\ workers[w].committed
             = Range(SerialList(w)) \ Range(workers[w].batches[2])
        /\ \A s \in workers[w].committed : db[s] # <<>>
        /\ \A s \in workers[w].failed : db[s] = <<>>

\* C24: a call of ProcessSingleCRL writes a cache entry only for serials of
\* batches it committed to the store.
C24_CachedOnlyIfCommitted ==
    \A w \in Workers : workers[w].cached \subseteq workers[w].committed

\* the status held by a cache entry
Cached(s) == Unmarshal(certCache[s][1].value)

\* C25: a cache entry written for a revoked status, by the ingestion or by
\* the write-back of a query, has a TTL strictly longer than any cache entry
\* written for a not-revoked status.
C25_RevokedKeptLonger ==
    \A s, t \in Serials :
        (/\ certCache[s] # <<>> /\ certCache[t] # <<>>
         /\ Cached(s).is_revoked /\ ~Cached(t).is_revoked)
        => certCache[s][1].ttl > certCache[t][1].ttl

\* C26: when a call of ProcessSingleCRL has ended, it has not written the
\* crl_info row of its source if its download, its parse or one of its
\* batches failed; and if it has written the row, the row is there and its
\* cert_count is the number of records the call persisted.
C26_DescriptorLifecycle ==
    \A w \in Workers :
        (workers[w].pc \in {"defer", "ret", "done"} /\ ~workers[w].skipped) =>
            /\ (workers[w].err # "nil" \/ workers[w].failed # {})
                  => ~workers[w].described
            /\ workers[w].described =>
                  /\ crlInfo[workers[w].url] # <<>>
                  /\ crlInfo[workers[w].url][1].cert_count
                       = workers[w].processed

\* the reason code a list entry carries: the content of the ENUMERATED of its
\* last reasonCode extension, <<>> without one
RECURSIVE CarriedReason(_, _)
CarriedReason(exts, found) ==
    IF exts = <<>> THEN found
    ELSE LET ext == Head(exts)
         IN  CarriedReason(Tail(exts),
                 IF ext.Id = ReasonOID /\ Len(ext.Value) >= 3
                 THEN <<ext.Value[3]>> ELSE found)

\* the code the claim expects in the record of an entry
ExpectedCode(entry) ==
    LET carried == CarriedReason(entry.Extensions, <<>>)
    IN  IF carried # <<>> /\ carried[1] \in DOMAIN RevocationReasons
        THEN carried[1] ELSE 0

\* C27: the row persisted for an entry of u1 holds code 0 when the entry has
\* no reason extension or carries a code that is not in RevocationReasons,
\* and the carried code otherwise; the text reported for the row is the
\* table text of that code.
C27_ReasonCodeExtraction ==
    LET list == CRLFile("u1").RevokedCertificates
    IN  \A i \in 1..Len(list) :
            LET s == formatSerial(list[i].SerialNumber)
            IN  db[s] # <<>> =>
                  /\ db[s][1].reason = ExpectedCode(list[i])
                  /\ ExpectedReason(db[s][1])
                       = RevocationReasons[ExpectedCode(list[i])]

\* C28 as claimed: with a cache configured, a call that found a cache entry
\* has incremented the hit counter and only it and does not read the store;
\* a call that found none, or got an error from the cache, has incremented
\* the miss counter and only it and reads the store.
C28_HitMissProtocol ==
    (hasRedis /\ query.pc \in {"db", "writeback", "done"}) =>
        IF query.hit
        THEN query.counted = "hits" /\ ~query.read /\ query.pc = "done"
        ELSE /\ query.counted = "misses"
             /\ query.pc \in {"writeback", "done"} => query.read

\* C28 amended: the same for the calls whose increment the cache accepts; an
\* increment the cache rejects is dropped, and then the call increments
\* neither counter.  No other step of a call changes a counter.
C28_HitMissWhenCounterAccepted ==
    /\ []((hasRedis /\ query.pc \in {"db", "writeback", "done"}) =>
            IF query.hit
            THEN /\ query.counted \in {"hits", "none"}
                 /\ ~query.read /\ query.pc = "done" /\ query.status # <<>>
            ELSE /\ query.counted \in {"misses", "none"}
                 /\ query.pc \in {"writeback", "done"} => query.read)
    /\ [][(query.pc = "count" /\ query'.pc # "count") =>
            LET key == IF query.hit THEN "hits" ELSE "misses"
            IN  IF redisUp
                THEN /\ query'.counted = key
                     /\ stats' = [stats EXCEPT ![key] = @ + 1]
                ELSE /\ query'.counted = "none"
                     /\ stats' = stats]_vars
    /\ [][(query.pc # "count" /\ query' # query) =>
            /\ stats'.hits = stats.hits
            /\ stats'.misses = stats.misses]_vars

C28_Witness ==
    /\ query.pc = "done"
    /\ query.cacheErr /\ ~query.hit
    /\ query.counted = "misses"
    /\ query.read /\ ~query.err
    /\ stats.misses = 1 /\ stats.hits = 0

\* the cache entry the write-back of a status leaves
WrittenBack(status) ==
    <<[value |-> Marshal(status),
       ttl |-> IF status.is_revoked THEN RevokedTTL ELSE NotRevokedTTL]>>

\* C29: with a cache, a call that missed and read the store successfully
\* goes through the write-back before it returns; the write-back leaves
\* under the queried serial the returned status with 7 days when revoked
\* and 24 hours when not; and a following call for the same serial that
\* reads the cache while that entry is there is a hit with the same status.
C29_WriteBack ==
    /\ [][(query.pc = "db" /\ query'.pc # "db" /\ ~query'.dbErr /\ hasRedis)
            => query'.pc = "writeback" /\ query'.status # <<>>]_vars
    /\ [][(query.pc = "writeback" /\ query'.pc # "writeback" /\ redisUp) =>
            /\ query'.pc = "done" /\ ~query'.err
            /\ query'.status = query.status
            /\ certCache'[query.serial] = WrittenBack(query.status[1])]_vars
    /\ [][(/\ query.pc = "get" /\ query'.pc # "get" /\ redisUp
           /\ query.prev # <<>>
           /\ certCache[query.serial] = WrittenBack(query.prev[1]))
          => /\ query'.hit
             /\ query'.status = query.prev]_vars
    /\ []((query.pc = "done" /\ query.hit) => ~query.read /\ ~query.err)

C29_Witness ==
    /\ query.pc = "done" /\ query.hit
    /\ query.prev # <<>>
    /\ query.status = query.prev
    /\ query.status[1].is_revoked
    /\ certCache[query.serial] = WrittenBack(query.status[1])
    /\ certCache[query.serial][1].ttl = RevokedTTL

\* C30: a step of CheckCertificateStatus leaves the revoked-certificate
\* records, the source descriptors and the processing leases as they were,
\* changes no cache entry other than that of the queried serial and no
\* counter other than hits and misses, and touches nothing of the ingestion;
\* every step that changes a record, a descriptor or a lease is a step of an
\* ingestion goroutine.
C30_SoleWriter ==
    /\ [][query' # query =>
            /\ db' = db /\ crlInfo' = crlInfo /\ lease' = lease
            /\ \A s \in Serials \ {query'.serial} :
                   certCache'[s] = certCache[s]
            /\ stats'.crls_processed = stats.crls_processed
            /\ workers' = workers /\ run' = run /\ ingested' = ingested
            /\ registry' = registry]_vars
    /\ [][(db' # db \/ crlInfo' # crlInfo \/ lease' # lease) =>
            /\ query' = query
            /\ \E w \in Workers :
                   /\ workers'[w] # workers[w]
                   /\ workers[w].pc \in {"setlease", "info", "commit",
                                         "defer"}]_vars

C30_Witness ==
    /\ query.pc = "done" /\ query.read /\ ~query.err
    /\ query.status[1].is_revoked
    /\ query.counted = "misses" /\ stats.misses > 0
    /\ certCache[query.serial] = WrittenBack(query.status[1])
    /\ db[query.serial] # <<>>
    /\ \E w \in Workers : workers[w].pc \in {"batch", "commit"}

\* C31: the sources in flight in all the invocations of ProcessAllCRLs
\* together are never more than the capacity of the counting gate.
C31_GlobalBound ==
    Cardinality(UNION {InFlight(r) : r \in Runs}) <= semaphoreCap

\* C32: a release that clears a held lease is the release of a call that
\* acquired it, and no other call is ingesting the same source under it.
C32_ReleaseOnlyOwnLease ==
    [][\A w \in Workers :
          (/\ workers[w].pc = "defer" /\ workers'[w].pc = "ret"
           /\ IsCRLProcessing(lease, workers[w].url)
           /\ ~IsCRLProcessing(lease', workers[w].url))
          => /\ workers[w].acquired
             /\ \A v \in Workers \ {w} :
                    workers[v].url = workers[w].url
                        => workers[v].pc \notin Ingesting]_vars

\* C33: the error of a ProcessSingleCRL call is that of its download or of
\* its parse: the step that fetches and parses either fails, which sets the
\* error and ends the body, or succeeds and goes on to the descriptor; no
\* later step sets an error, whether the descriptor or a batch was persisted
\* or not; so a call that returns with an error persisted nothing, and a call
\* whose descriptor or batches failed to persist returns nil.
C33_ResultOfProcessSingleCRL ==
    /\ [][\A w \in Workers :
            (workers[w].pc = "download" /\ workers'[w].pc # "download") =>
               IF workers'[w].pc = "info"
               THEN workers'[w].err = "nil"
               ELSE /\ workers'[w].err \in {"download", "parse"}
                    /\ workers'[w].pc = AfterBody]_vars
    /\ [][\A w \in Workers :
            (workers[w].pc # "download" /\ workers'[w].pc # "spawned")
                => workers'[w].err = workers[w].err]_vars
    /\ [](\A w \in Workers :
            workers[w].pc \in {"ret", "done"} =>
               /\ workers[w].err \in {"nil", "download", "parse"}
               /\ workers[w].err # "nil" =>
                     /\ workers[w].downloaded /\ ~workers[w].described
                     /\ workers[w].batches = <<>>
               /\ (workers[w].batches # <<>> \/ workers[w].described
                    \/ workers[w].skipped) => workers[w].err = "nil")

C33_Witness ==
    \E w \in Workers :
        /\ workers[w].pc = "ret" /\ workers[w].err = "nil"
        /\ workers[w].downloaded /\ ~workers[w].described
        /\ Len(workers[w].batches) > 1
        /\ workers[w].committed = {}
        /\ workers[w].failed = {CertsOf(w)[i].Serial : i \in 1..Len(CertsOf(w))}

\* C34: an invocation that started its goroutines eventually returns; the
\* step that ends a goroutine which took a slot of the counting gate gives
\* the slot back whatever its call returned; when the invocation has
\* returned no slot is taken, no goroutine is outstanding and none is left
\* waiting for a slot.
C34_Termination ==
    /\ (run["scheduled"].pc = "running") ~> (run["scheduled"].pc = "returned")
    /\ [][\A w \in Workers :
            (workers[w].pc \in {"entry"} \cup InCall /\ workers'[w].pc = "done")
                => run'[RunOf(w)].sem = run[RunOf(w)].sem - 1]_vars
    /\ [](\A r \in Runs :
            run[r].pc = "returned" =>
               /\ run[r].sem = 0 /\ run[r].wg = 0
               /\ \A w \in WorkersOf(r) : workers[w].pc = "done")

C34_Witness ==
    /\ run["scheduled"].pc = "returned"
    /\ Len(registry["scheduled"]) > semaphoreCap
    /\ run["scheduled"].result = "nil"
    /\ run["scheduled"].sem = 0
    /\ Cardinality(WorkersOf("scheduled")) = Len(registry["scheduled"])
    /\ \A w \in WorkersOf("scheduled") :
          workers[w].pc = "done" /\ workers[w].err # "nil"
====
